---- MODULE Spec2Model ----
(***************************************************************************)
(* Hand-gesture recognition engine.                                        *)
(*                                                                         *)
(* Two engines live in the repository and share the same state fields:     *)
(*   - GestureDetector.recognize      (src/backend/gesture_detector.py)    *)
(*   - GestureController.run          (src/backend/main.py), which adds    *)
(*     the pose stabilizer in front of the pose handlers.                  *)
(* The variable `program` records which of the two an execution runs.      *)
(* A third program, the pc-server (src/pc-server/main.py), executes the     *)
(* messages of a remote client; its handler has its own variables.         *)
(*                                                                         *)
(* Units.  Distances and y coordinates are integers in units of 0.005 of   *)
(* the normalized camera space (0.04 = 8, 0.045 = 9, 0.015 = 3).  Time is  *)
(* in units of 0.5 s (0.5 s = 1, 1.5 s = 3).                               *)
(***************************************************************************)
EXTENDS Integers, Sequences, FiniteSets, TLC

VARIABLES
    program,                  \* "detector" | "controller"
    current_pose,             \* self.current_pose
    last_action_time,         \* self.last_action_time
    is_dragging,              \* self.is_dragging
    scroll_origin_y,          \* self.scroll_origin_y (NoValue or Some(y))
    pose_candidate,           \* self.pose_candidate (controller only)
    pose_confirmation_frames, \* self.pose_confirmation_frames (controller only)
    now,                      \* the clock read by time.time()
    frame,                    \* what the handlers read of the latest step's snapshot
    raw_pose,                 \* new_pose / raw_pose computed by the latest step
    events,                   \* the events emitted by the latest step, in order
    last_drag,                \* the latest drag event of the whole event stream
    raw_run,                  \* number of consecutive observations equal to raw_pose
    click_frame_time,         \* frame_time of the latest step that emitted a click
    lm,                       \* classifier input: joint coordinates of one snapshot
    classified,               \* classifier output for lm, or None before the call
    smooth_x,                 \* pc-server handler: smooth_x
    smooth_y,                 \* pc-server handler: smooth_y
    unclamped,                \* smooth_x, smooth_y of the latest move before the clamp
    sent,                     \* arguments of the latest pyautogui.moveTo, or NoValue
    session,                  \* "running" | "stopped": the loop of run, the connection
    button_down,              \* pc-server: the primary button is held by a mouseDown
    landmarks,                \* HandTracker.landmarks, with the capture that wrote it
    image_frame,              \* HandTracker.image_frame: the capture that wrote it
    lock,                     \* HandTracker.lock: "free" | "tracker" | "main"
    tracker_pc,               \* position of HandTracker.run
    results,                  \* the capture thread's latest processed frame
    main_pc,                  \* position of the control loop
    got_landmarks,            \* get_data: the landmarks read
    got_image,                \* get_data: the image frame read
    cam_pose,                 \* pose of the latest snapshot written
    cam_run,                  \* length of the run of cam_pose in the snapshots written
    longest_run,              \* per pose, the longest run in the snapshots written
    running,                  \* HandTracker.running
    malformed_log,            \* the outcome of every step on a malformed snapshot
    config                    \* GestureDetector's configuration, NoValue before __init__

\* the fields of the two engines
engineVars == <<current_pose, last_action_time, is_dragging, scroll_origin_y,
                pose_candidate, pose_confirmation_frames, now, frame, raw_pose,
                events, last_drag, raw_run, click_frame_time>>

\* the locals of one connection of the pc-server handler
serverVars == <<smooth_x, smooth_y, unclamped, sent>>

\* the session: the controller's loop or the pc-server's connection
sessionVars == <<session, button_down>>

\* the capture thread, the shared slot and the control loop's get_data
threadVars == <<landmarks, image_frame, lock, tracker_pc, results, main_pc,
                got_landmarks, got_image, cam_pose, cam_run, longest_run, running>>

\* everything outside the two engines and the classifier
otherVars == <<serverVars, sessionVars, threadVars, malformed_log, config>>

vars == <<program, current_pose, last_action_time, is_dragging, scroll_origin_y,
          pose_candidate, pose_confirmation_frames, now, frame, raw_pose,
          events, last_drag, raw_run, click_frame_time, lm, classified,
          smooth_x, smooth_y, unclamped, sent, session, button_down,
          landmarks, image_frame, lock, tracker_pc, results, main_pc,
          got_landmarks, got_image, cam_pose, cam_run, longest_run, running,
          malformed_log, config>>

None == "None"

\* an optional number: <<>> for None, <<v>> for the value v
NoValue == <<>>

Some(v) == <<v>>

\* a float: nan tells a NaN from the number v
Float(v) == [nan |-> FALSE, v |-> v]

NaN == [nan |-> TRUE, v |-> 0]

\* ---------------------------------------------------------------- constants
\* action_cooldown = 0.5 s
ACTION_COOLDOWN == 1
\* the ShowDesktop cooldown of the controller, 1.5 s
SHOW_DESKTOP_COOLDOWN == 3
\* pinch_threshold = 0.04 of the detector
PINCH_THRESHOLD == 8
\* PINCH_DISTANCE_THRESHOLD = 0.045 of the controller
PINCH_DISTANCE_THRESHOLD == 9
\* the release margin 0.015 of the drag hysteresis
RELEASE_MARGIN == 3
\* abs(scroll_amount) > 3 gates pyautogui.scroll
SCROLL_DEADZONE == 3
POSE_CONFIRMATION_THRESHOLD == 5

\* ------------------------------------------------------------------- bounds
\* the clock starts at StartTime (epoch time, far above every cooldown) and
\* the model stops it at StartTime + MaxElapsed
StartTime == 4
MaxElapsed == 4
\* index-tip y values are 0..MaxY
MaxY == 2
\* the clock advances by at most MaxLag between the two reads of one step
MaxLag == 1

Poses == {"Idle", "Fist", "OpenPalm", "Pointer", "PeaceSign", "ThumbsUp", "CallMe"}

Programs == {"detector", "controller"}

PinchThresholdOf(p) ==
    IF p = "detector" THEN PINCH_THRESHOLD ELSE PINCH_DISTANCE_THRESHOLD

\* ------------------------------------------------------------ pose classifier
\* the five finger-extension results of one snapshot
FingerCombos ==
    [thumb : BOOLEAN, index : BOOLEAN, middle : BOOLEAN, ring : BOOLEAN, pinky : BOOLEAN]

\* four_fingers_state / finger_states: index, middle, ring, pinky
FourFingers(f) == <<f.index, f.middle, f.ring, f.pinky>>

AnyOf(t) == \E i \in DOMAIN t : t[i]

AllOf(t) == \A i \in DOMAIN t : t[i]

\* the rule conditions of GestureDetector._get_hand_pose, as written
DetCondCallMe(f) == f.thumb /\ f.pinky /\ ~f.index /\ ~f.middle /\ ~f.ring

DetCondThumbsUp(f) == f.thumb /\ ~AnyOf(FourFingers(f))

DetCondOpenPalm(f) == AllOf(FourFingers(f))

\* mutant of DetCondFist: the thumb required up
DetCondFist_ThumbUp(f) == ~AnyOf(FourFingers(f)) /\ f.thumb

DetCondFist(f) == ~AnyOf(FourFingers(f))

DetCondPointer(f) == FourFingers(f) = <<TRUE, FALSE, FALSE, FALSE>>

DetCondPeaceSign(f) == FourFingers(f) = <<TRUE, TRUE, FALSE, FALSE>>

\* mutant of DetectorMatchPose: Fist tested before ThumbsUp
DetectorMatchPose_FistFirst(f) ==
    IF DetCondCallMe(f) THEN "CallMe"
    ELSE IF DetCondFist(f) THEN "Fist"
    ELSE IF DetCondThumbsUp(f) THEN "ThumbsUp"
    ELSE IF DetCondOpenPalm(f) THEN "OpenPalm"
    ELSE IF DetCondPointer(f) THEN "Pointer"
    ELSE IF DetCondPeaceSign(f) THEN "PeaceSign"
    ELSE "Idle"

\* the if-chain of GestureDetector._get_hand_pose
DetectorMatchPose(f) ==
    IF DetCondCallMe(f) THEN "CallMe"
    ELSE IF DetCondThumbsUp(f) THEN "ThumbsUp"
    ELSE IF DetCondOpenPalm(f) THEN "OpenPalm"
    ELSE IF DetCondFist(f) THEN "Fist"
    ELSE IF DetCondPointer(f) THEN "Pointer"
    ELSE IF DetCondPeaceSign(f) THEN "PeaceSign"
    ELSE "Idle"

\* the rule conditions of GestureController._get_hand_pose, as written
CtlCondCallMe(f) == f.thumb /\ f.pinky /\ ~f.index /\ ~f.middle /\ ~f.ring

CtlCondThumbsUp(f) == f.thumb /\ ~AnyOf(FourFingers(f))

CtlCondOpenPalm(f) == AllOf(FourFingers(f))

\* mutant of CtlCondFist: the thumb not tested
CtlCondFist_NonStrict(f) == ~AnyOf(FourFingers(f))

CtlCondFist(f) == ~AnyOf(FourFingers(f)) /\ ~f.thumb

CtlCondPointer(f) == FourFingers(f) = <<TRUE, FALSE, FALSE, FALSE>>

CtlCondPeaceSign(f) == FourFingers(f) = <<TRUE, TRUE, FALSE, FALSE>>

\* the if-chain of GestureController._get_hand_pose
ControllerMatchPose(f) ==
    IF CtlCondCallMe(f) THEN "CallMe"
    ELSE IF CtlCondThumbsUp(f) THEN "ThumbsUp"
    ELSE IF CtlCondOpenPalm(f) THEN "OpenPalm"
    ELSE IF CtlCondFist(f) THEN "Fist"
    ELSE IF CtlCondPointer(f) THEN "Pointer"
    ELSE IF CtlCondPeaceSign(f) THEN "PeaceSign"
    ELSE "Idle"

MatchPose(p, f) ==
    IF p = "detector" THEN DetectorMatchPose(f) ELSE ControllerMatchPose(f)

\* Joint coordinates of one snapshot, as the classifiers read them.  y maps a
\* landmark index to its y coordinate; dot[i] tells whether the dot product of
\* finger i's unit vector with the palm-up unit vector exceeds 0.6.
ThumbJoints == {2, 3, 4}

FingerJoints == {6, 8, 10, 12, 14, 16, 18, 20}

\* two levels give every order of a (tip, joint) pair, three levels every
\* order of the three thumb joints
JointLevels == {0, 1}

ThumbLevels == {0, 1, 2}

JointYs ==
    {t @@ g : t \in [ThumbJoints -> ThumbLevels], g \in [FingerJoints -> JointLevels]}

\* which vectors of the controller's classifier have norm 0: 0 is the palm-up
\* vector (landmark 9 minus landmark 0), 1..4 the vectors of index, middle,
\* ring and pinky (tip minus knuckle)
Vectors == 0..4

NoZero == [v \in Vectors |-> FALSE]

AbsentHand == [hand |-> FALSE, y |-> [j \in ThumbJoints \cup FingerJoints |-> 0],
               dot |-> <<FALSE, FALSE, FALSE, FALSE>>, zero |-> NoZero]

\* lines 65-69 of gesture_detector.py
DetectorFingerStates(l) ==
    [thumb  |-> l.y[4] < l.y[3] /\ l.y[3] < l.y[2],
     index  |-> l.y[8] < l.y[6],
     middle |-> l.y[12] < l.y[10],
     ring   |-> l.y[16] < l.y[14],
     pinky  |-> l.y[20] < l.y[18]]

\* mutant of ControllerFingerUp: a NaN dot product counts as extended
ControllerFingerUp_NaNExtended(l, i) == l.zero[0] \/ l.zero[i] \/ l.dot[i]

\* lines 101-116 of main.py for finger i.  l.dot[i] is the test dot > 0.6 on
\* vectors that have a direction.  A vector of norm 0 divided by its norm is
\* an array of NaN (numpy warns and does not raise), the dot product with it
\* is NaN, and NaN > 0.6 is False.
ControllerFingerUp(l, i) == IF l.zero[0] \/ l.zero[i] THEN FALSE ELSE l.dot[i]

\* lines 104-123 of main.py
ControllerFingerStates(l) ==
    [thumb  |-> l.y[4] < l.y[3],
     index  |-> ControllerFingerUp(l, 1),
     middle |-> ControllerFingerUp(l, 2),
     ring   |-> ControllerFingerUp(l, 3),
     pinky  |-> ControllerFingerUp(l, 4)]

DetectorGetHandPose(l) ==
    IF ~l.hand THEN "Idle" ELSE DetectorMatchPose(DetectorFingerStates(l))

ControllerGetHandPose(l) ==
    IF ~l.hand THEN "Idle" ELSE ControllerMatchPose(ControllerFingerStates(l))

FingerStates(p, l) ==
    IF p = "detector" THEN DetectorFingerStates(l) ELSE ControllerFingerStates(l)

GetHandPose(p, l) ==
    IF p = "detector" THEN DetectorGetHandPose(l) ELSE ControllerGetHandPose(l)

\* the hands the controller's classifier tells apart, with the zero vectors
\* taken from zs
ControllerHands(zs) ==
    {[hand |-> TRUE, y |-> [j \in ThumbJoints \cup FingerJoints |->
                              IF j \in {3, 4} THEN t[j] ELSE 0], dot |-> d, zero |-> z] :
        t \in [{3, 4} -> ThumbLevels], d \in [1..4 -> BOOLEAN], z \in zs}

\* the snapshots of the classifier specification: the detector reads the y
\* coordinates only, the controller the dot products and the thumb's y
ClassifierInputs(p) ==
    {AbsentHand} \cup
    (IF p = "detector"
    THEN {[hand |-> TRUE, y |-> yy, dot |-> <<FALSE, FALSE, FALSE, FALSE>>,
           zero |-> NoZero] : yy \in JointYs}
    ELSE ControllerHands({NoZero}))

\* the hands with degenerate geometry: at least one vector of norm 0
DegenerateInputs == ControllerHands([Vectors -> BOOLEAN] \ {NoZero})

\* ------------------------------------------------------------------ snapshots
\* A snapshot as the engines read it: the five finger-extension results, the
\* three pinch distances (frame 4-8, 4-12, 4-16) and landmark 8's y.
NoHand ==
    [hand |-> FALSE,
     fingers |-> [thumb |-> FALSE, index |-> FALSE, middle |-> FALSE,
                  ring |-> FALSE, pinky |-> FALSE],
     thumb_index |-> 0, thumb_middle |-> 0, thumb_ring |-> 0, index_y |-> 0]

Hands(fs, d1s, d2s, d3s, ys) ==
    {[hand |-> TRUE, fingers |-> f, thumb_index |-> d1, thumb_middle |-> d2,
      thumb_ring |-> d3, index_y |-> y] :
        f \in fs, d1 \in d1s, d2 \in d2s, d3 \in d3s, y \in ys}

\* the distances that separate every case of the pinch and release tests
PinchDistances(p) == {PinchThresholdOf(p) - 1, PinchThresholdOf(p)}

DragDistances(p) ==
    PinchDistances(p) \cup
    {PinchThresholdOf(p) + RELEASE_MARGIN, PinchThresholdOf(p) + RELEASE_MARGIN + 1}

\* landmark_list of a snapshot: the distances and the y the handlers read
Measurements(s) ==
    [hand |-> s.hand, thumb_index |-> s.thumb_index, thumb_middle |-> s.thumb_middle,
     thumb_ring |-> s.thumb_ring, index_y |-> s.index_y]

YValues == 0..MaxY

MaxTime == StartTime + MaxElapsed

Ev(k) == [kind |-> k, delta |-> 0]

ScrollEv(d) == [kind |-> "Scroll", delta |-> d]

Kinds(evs) == {evs[i].kind : i \in DOMAIN evs}

ClickKinds == {"LeftClick", "RightClick", "DoubleClick"}

DragKinds == {"DragStart", "DragEnd"}

\* int(): truncation toward zero
Trunc(n, m) == IF n >= 0 THEN n \div m ELSE -((-n) \div m)

\* --------------------------------------------------------- GestureDetector
\* mutant of DetectorPointerClick: the middle finger tested before the index
DetectorPointerClick_MiddleFirst(s) ==
    IF s.thumb_middle < PINCH_THRESHOLD THEN "RightClick"
    ELSE IF s.thumb_index < PINCH_THRESHOLD THEN "LeftClick"
    ELSE IF s.thumb_ring < PINCH_THRESHOLD THEN "DoubleClick"
    ELSE None

\* lines 125-133: the pinch chain of the Pointer pose
DetectorPointerClick(s) ==
    IF s.thumb_index < PINCH_THRESHOLD THEN "LeftClick"
    ELSE IF s.thumb_middle < PINCH_THRESHOLD THEN "RightClick"
    ELSE IF s.thumb_ring < PINCH_THRESHOLD THEN "DoubleClick"
    ELSE None

\* mutant of DetectorCanAct: the cooldown test made non-strict
DetectorCanAct_NonStrict(t, last) == (t - last) >= ACTION_COOLDOWN

\* line 122
DetectorCanAct(t, last) == (t - last) > ACTION_COOLDOWN

\* mutant of DetectorDragEnds: the release test without the margin
DetectorDragEnds_NoMargin(d, dragging) == d > PINCH_THRESHOLD /\ dragging

\* lines 137 and 140: the two tests of the drag hysteresis
DetectorDragStarts(d, dragging) == d < PINCH_THRESHOLD /\ ~dragging

DetectorDragEnds(d, dragging) == d > (PINCH_THRESHOLD + RELEASE_MARGIN) /\ dragging

\* mutant of DetectorScrollAnchor: the origin stays where the pose was entered
DetectorScrollAnchor_Entry(origin, current_y) == Some(origin)

\* line 151: the origin the next frame's delta is taken from
DetectorScrollAnchor(origin, current_y) == Some(current_y)

\* mutant of DetectorPoseChange: a pose change that forgets the drag
DetectorPoseChange_NoCleanup(new_pose) ==
    IF new_pose # current_pose
    THEN [ev |-> <<>>, drag |-> is_dragging, org |-> NoValue]
    ELSE [ev |-> <<>>, drag |-> is_dragging, org |-> scroll_origin_y]

\* lines 110-115: what a step does before the pose handlers; the result is
\* the events so far, is_dragging and scroll_origin_y
DetectorPoseChange(new_pose) ==
    IF new_pose # current_pose
    THEN [ev |-> IF is_dragging THEN <<Ev("DragEnd")>> ELSE <<>>,
          drag |-> FALSE, org |-> NoValue]
    ELSE [ev |-> <<>>, drag |-> is_dragging, org |-> scroll_origin_y]

\* mutant of EventsAppend: the event is put in front
EventsAppend_Front(evs, e) == <<e>> \o evs

\* events.append(e)
EventsAppend(evs, e) == Append(evs, e)

\* lines 120-155: the handler of the current pose; acted tells whether
\* last_action_time is set
DetectorHandle(pose, s, c, t) ==
    LET can_act == DetectorCanAct(t, last_action_time)
        quiet == [ev |-> c.ev, drag |-> c.drag, org |-> c.org, acted |-> FALSE]
    IN  IF ~s.hand THEN quiet
        ELSE IF pose = "Pointer" /\ can_act
        THEN IF DetectorPointerClick(s) # None
             THEN [quiet EXCEPT !.ev = EventsAppend(c.ev, Ev(DetectorPointerClick(s))),
                                !.acted = TRUE]
             ELSE quiet
        ELSE IF pose = "ThumbsUp"
        THEN IF DetectorDragStarts(s.thumb_index, c.drag)
             THEN [quiet EXCEPT !.ev = EventsAppend(c.ev, Ev("DragStart")), !.drag = TRUE]
             ELSE IF DetectorDragEnds(s.thumb_index, c.drag)
             THEN [quiet EXCEPT !.ev = EventsAppend(c.ev, Ev("DragEnd")), !.drag = FALSE]
             ELSE quiet
        ELSE IF pose = "PeaceSign"
        THEN LET origin == IF c.org = NoValue THEN s.index_y ELSE c.org[1]
             IN  [quiet EXCEPT !.ev = EventsAppend(c.ev, ScrollEv(origin - s.index_y)),
                               !.org = DetectorScrollAnchor(origin, s.index_y)]
        ELSE IF pose = "CallMe" /\ can_act
        THEN [quiet EXCEPT !.ev = EventsAppend(c.ev, Ev("ShowDesktop")), !.acted = TRUE]
        ELSE quiet

\* the ghost fields every step maintains: the latest drag event of the stream
\* and the time of the latest frame that clicked
LastDragAfter(evs) ==
    LET idx == {i \in DOMAIN evs : evs[i].kind \in DragKinds}
    IN  IF idx = {} THEN last_drag
        ELSE evs[CHOOSE i \in idx : \A j \in idx : j <= i].kind

ClickTimeAfter(evs, t) ==
    IF Kinds(evs) \cap ClickKinds # {} THEN Some(t) ELSE click_frame_time

\* the second clock read of a step (last_action_time = time.time()) happens
\* after the first: t2 is its value
SecondRead(acted, t2) ==
    /\ t2 \in now..(IF now + MaxLag <= MaxTime THEN now + MaxLag ELSE MaxTime)
    /\ ~acted => t2 = now
    /\ now' = t2
    /\ last_action_time' = IF acted THEN t2 ELSE last_action_time

\* GestureDetector.recognize(landmarks), lines 105-157
RecognizeBody(s, t2) ==
    /\ program = "detector"
    /\ LET new_pose == IF s.hand THEN DetectorMatchPose(s.fingers) ELSE "Idle"
           c == DetectorPoseChange(new_pose)
           r == DetectorHandle(new_pose, s, c, now)
       IN  /\ SecondRead(r.acted, t2)
           /\ current_pose' = new_pose
           /\ is_dragging' = r.drag
           /\ scroll_origin_y' = r.org
           /\ events' = r.ev
           /\ raw_pose' = new_pose
           /\ last_drag' = LastDragAfter(r.ev)
           /\ click_frame_time' = ClickTimeAfter(r.ev, now)
    /\ frame' = Measurements(s)
    /\ UNCHANGED <<program, pose_candidate, pose_confirmation_frames, raw_run, lm, classified>>

\* one call of GestureDetector.recognize
Recognize(s, t2) ==
    /\ RecognizeBody(s, t2)
    /\ UNCHANGED otherVars

\* -------------------------------------------------------- GestureController
\* lines 162-173: the pinch chain of _handle_pointer_pose
ControllerPointerClick(s) ==
    IF s.thumb_index < PINCH_DISTANCE_THRESHOLD THEN "LeftClick"
    ELSE IF s.thumb_middle < PINCH_DISTANCE_THRESHOLD THEN "RightClick"
    ELSE IF s.thumb_ring < PINCH_DISTANCE_THRESHOLD THEN "DoubleClick"
    ELSE None

\* line 159
ControllerCanAct(t, last) == (t - last) > ACTION_COOLDOWN

\* mutant of ControllerCanShowDesktop: gated by the click cooldown
ControllerCanShowDesktop_Short(t, last) == (t - last) > ACTION_COOLDOWN

\* line 245
ControllerCanShowDesktop(t, last) == (t - last) > SHOW_DESKTOP_COOLDOWN

\* lines 179 and 183: the two tests of _handle_thumbs_up_pose
ControllerDragStarts(d, dragging) == d < PINCH_DISTANCE_THRESHOLD /\ ~dragging

ControllerDragEnds(d, dragging) ==
    d > (PINCH_DISTANCE_THRESHOLD + RELEASE_MARGIN) /\ dragging

\* line 194: scroll_amount = int(delta_y * 400), delta_y in units of 1/200
ScrollAmount(delta_y) == Trunc(delta_y * 400, 200)

\* line 195
ScrollDispatched(delta_y) ==
    LET a == ScrollAmount(delta_y) IN (IF a >= 0 THEN a ELSE -a) > SCROLL_DEADZONE

\* line 197: the origin the next frame's delta is taken from
ControllerScrollAnchor(origin, current_y) == Some(current_y)

\* mutant of ControllerObserve: a new candidate continues the old count
ControllerObserve_NoReset(raw) ==
    IF raw = current_pose THEN [cand |-> None, frames |-> 0]
    ELSE [cand |-> raw, frames |-> pose_confirmation_frames + 1]

\* lines 217-225: the stabilizer's bookkeeping for one raw pose
ControllerObserve(raw) ==
    IF raw = current_pose THEN [cand |-> None, frames |-> 0]
    ELSE IF raw = pose_candidate
    THEN [cand |-> pose_candidate, frames |-> pose_confirmation_frames + 1]
    ELSE [cand |-> raw, frames |-> 1]

\* mutant of ControllerConfirms: the comparison off by one
ControllerConfirms_Late(o) == o.cand # None /\ o.frames > POSE_CONFIRMATION_THRESHOLD

\* line 227
ControllerConfirms(o) == o.cand # None /\ o.frames >= POSE_CONFIRMATION_THRESHOLD

\* mutant of ControllerPoseChange: the confirmation leaves the drag alone
ControllerPoseChange_KeepsDrag(o) ==
    IF ControllerConfirms(o)
    THEN [pose |-> o.cand, cand |-> None, frames |-> 0,
          ev |-> <<>>, drag |-> is_dragging, org |-> NoValue]
    ELSE [pose |-> current_pose, cand |-> o.cand, frames |-> o.frames,
          ev |-> <<>>, drag |-> is_dragging, org |-> scroll_origin_y]

\* mutant of ControllerPoseChange: the confirmation leaves the scroll origin
ControllerPoseChange_KeepsOrigin(o) ==
    IF ControllerConfirms(o)
    THEN [pose |-> o.cand, cand |-> None, frames |-> 0,
          ev |-> IF is_dragging THEN <<Ev("DragEnd")>> ELSE <<>>,
          drag |-> FALSE, org |-> scroll_origin_y]
    ELSE [pose |-> current_pose, cand |-> o.cand, frames |-> o.frames,
          ev |-> <<>>, drag |-> is_dragging, org |-> scroll_origin_y]

\* lines 227-235: the confirmation of a pose change and its cleanup
ControllerPoseChange(o) ==
    IF ControllerConfirms(o)
    THEN [pose |-> o.cand, cand |-> None, frames |-> 0,
          ev |-> IF is_dragging THEN <<Ev("DragEnd")>> ELSE <<>>,
          drag |-> FALSE, org |-> NoValue]
    ELSE [pose |-> current_pose, cand |-> o.cand, frames |-> o.frames,
          ev |-> <<>>, drag |-> is_dragging, org |-> scroll_origin_y]

\* lines 237-248 with the three pose handlers (lines 157-197)
ControllerHandle(pose, s, c, t) ==
    LET quiet == [ev |-> c.ev, drag |-> c.drag, org |-> c.org, acted |-> FALSE]
    IN  IF ~s.hand THEN quiet
        ELSE IF pose = "Pointer"
        THEN IF ControllerCanAct(t, last_action_time) /\ ControllerPointerClick(s) # None
             THEN [quiet EXCEPT !.ev = Append(c.ev, Ev(ControllerPointerClick(s))),
                                !.acted = TRUE]
             ELSE quiet
        ELSE IF pose = "ThumbsUp"
        THEN IF ControllerDragStarts(s.thumb_index, c.drag)
             THEN [quiet EXCEPT !.ev = Append(c.ev, Ev("DragStart")), !.drag = TRUE]
             ELSE IF ControllerDragEnds(s.thumb_index, c.drag)
             THEN [quiet EXCEPT !.ev = Append(c.ev, Ev("DragEnd")), !.drag = FALSE]
             ELSE quiet
        ELSE IF pose = "PeaceSign"
        THEN LET origin == IF c.org = NoValue THEN s.index_y ELSE c.org[1]
                 delta_y == origin - s.index_y
             IN  [quiet EXCEPT !.ev = IF ScrollDispatched(delta_y)
                                      THEN Append(c.ev, ScrollEv(delta_y)) ELSE c.ev,
                               !.org = ControllerScrollAnchor(origin, s.index_y)]
        ELSE IF pose = "CallMe" /\ ControllerCanShowDesktop(t, last_action_time)
        THEN [quiet EXCEPT !.ev = Append(c.ev, Ev("ShowDesktop")), !.acted = TRUE]
        ELSE quiet

\* the number of consecutive observations whose raw pose is raw, this one
\* included, counted up to the confirmation threshold
RawRunAfter(raw) ==
    IF raw = raw_pose
    THEN (IF raw_run < POSE_CONFIRMATION_THRESHOLD THEN raw_run + 1 ELSE raw_run)
    ELSE 1

\* lines 215-248 of GestureController.run on the snapshot s of get_data
LoopBody(s, t2) ==
    /\ program = "controller"
    /\ LET raw == IF s.hand THEN ControllerMatchPose(s.fingers) ELSE "Idle"
           o == ControllerObserve(raw)
           c == ControllerPoseChange(o)
           r == ControllerHandle(c.pose, s, c, now)
       IN  /\ SecondRead(r.acted, t2)
           /\ current_pose' = c.pose
           /\ pose_candidate' = c.cand
           /\ pose_confirmation_frames' = c.frames
           /\ is_dragging' = r.drag
           /\ scroll_origin_y' = r.org
           /\ events' = r.ev
           /\ raw_pose' = raw
           /\ raw_run' = RawRunAfter(raw)
           /\ last_drag' = LastDragAfter(r.ev)
           /\ click_frame_time' = ClickTimeAfter(r.ev, now)
    /\ frame' = Measurements(s)
    /\ UNCHANGED <<program, lm, classified>>

\* one iteration of the loop of GestureController.run, lines 213-248
RunIteration(s, t2) ==
    /\ LoopBody(s, t2)
    /\ UNCHANGED otherVars

\* time passes between two steps
Tick ==
    /\ now < MaxTime
    /\ now' = now + 1
    /\ UNCHANGED <<program, current_pose, last_action_time, is_dragging, scroll_origin_y,
                   pose_candidate, pose_confirmation_frames, frame, raw_pose,
                   events, last_drag, raw_run, click_frame_time, lm, classified>>
    /\ UNCHANGED otherVars

\* the default arguments of GestureDetector.__init__, line 32
DefaultConfig == [action_cooldown |-> ACTION_COOLDOWN, pinch_threshold |-> PINCH_THRESHOLD]

\* GestureDetector.__init__ (lines 39-42) and GestureController.__init__ (76-85)
EngineInit ==
    /\ current_pose = "Idle"
    /\ last_action_time = 0
    /\ is_dragging = FALSE
    /\ scroll_origin_y = NoValue
    /\ pose_candidate = None
    /\ pose_confirmation_frames = 0
    /\ now = StartTime
    /\ frame = Measurements(NoHand)
    /\ raw_pose = None
    /\ events = <<>>
    /\ last_drag = None
    /\ raw_run = 0
    /\ click_frame_time = NoValue

\* no pc-server connection is open
ServerAbsent ==
    /\ smooth_x = 0
    /\ smooth_y = 0
    /\ unclamped = NoValue
    /\ sent = NoValue

\* the loop or the connection has started, no button is held
SessionInit ==
    /\ session = "running"
    /\ button_down = FALSE

\* HandTracker.__init__, lines 32-35: the slot holds the empty pair, which
\* counts as capture 0
EmptySlot == [capture |-> 0, snap |-> NoHand]

\* the capture thread is inside its loop (running was set by line 38), the
\* control loop is at its first get_data
ThreadInit ==
    /\ landmarks = EmptySlot
    /\ image_frame = 0
    /\ lock = "free"
    /\ tracker_pc = "capture"
    /\ results = EmptySlot
    /\ main_pc = "get_data"
    /\ got_landmarks = EmptySlot
    /\ got_image = 0
    /\ cam_pose = None
    /\ cam_run = 0
    /\ longest_run = [p \in Poses |-> 0]
    /\ running = TRUE

\* the programs an execution does not run stay as they are
OthersAbsent ==
    /\ ServerAbsent
    /\ SessionInit
    /\ ThreadInit
    /\ malformed_log = <<>>
    /\ config = Some(DefaultConfig)

Init ==
    /\ program \in Programs
    /\ EngineInit
    /\ lm = AbsentHand
    /\ classified = None
    /\ OthersAbsent

\* ------------------------------------------------------------ specifications
Step(s, t2) == Recognize(s, t2) \/ RunIteration(s, t2)

\* every snapshot the model distinguishes
AllSnapshots(p) ==
    {NoHand} \cup Hands(FingerCombos, DragDistances(p), PinchDistances(p),
                        PinchDistances(p), YValues)

Next ==
    \/ \E s \in AllSnapshots(program), t2 \in StartTime..MaxTime : Step(s, t2)
    \/ Tick

Spec == Init /\ [][Next]_vars

\* The specifications below are Spec restricted to one family of snapshots
\* each, so every behaviour of theirs is a behaviour of Spec.  A family varies
\* the inputs one group of handlers reads and fixes the others at a value that
\* triggers nothing.  In the drag and the scroll family, whose handlers read
\* no clock, every frame arrives at the same clock value.
NoPinch(p) == {PinchThresholdOf(p)}

\* every finger combination, every case of the thumb-index distance
DragSnapshots(p) ==
    {NoHand} \cup Hands(FingerCombos, DragDistances(p), NoPinch(p), NoPinch(p), {0})

\* every finger combination, every index-tip y
ScrollSnapshots(p) ==
    {NoHand} \cup Hands(FingerCombos, NoPinch(p), NoPinch(p), NoPinch(p), YValues)

\* the finger combinations of the two poses that the cooldown gates, every
\* combination of the three pinches
ClickFingers(p) == {f \in FingerCombos : MatchPose(p, f) \in {"Pointer", "CallMe"}}

ClickSnapshots(p) ==
    {NoHand} \cup Hands(ClickFingers(p), PinchDistances(p), PinchDistances(p),
                        PinchDistances(p), {0})

NextDrag == \E s \in DragSnapshots(program) : Step(s, now)

SpecDrag == Init /\ [][NextDrag]_vars

\* The loops never block: recognize is called for every camera frame and
\* run is `while True` around a 1 ms sleep, so a step that is possible is
\* eventually taken.
SpecDragFair == SpecDrag /\ WF_vars(NextDrag)

NextScroll == \E s \in ScrollSnapshots(program) : Step(s, now)

SpecScroll == Init /\ [][NextScroll]_vars

NextClick ==
    \/ \E s \in ClickSnapshots(program), t2 \in StartTime..MaxTime : Step(s, t2)
    \/ Tick

SpecClick == Init /\ [][NextClick]_vars

\* The classifier alone: one call of _get_hand_pose on every snapshot.
Classify ==
    /\ classified = None
    /\ classified' = GetHandPose(program, lm)
    /\ UNCHANGED <<program, current_pose, last_action_time, is_dragging, scroll_origin_y,
                   pose_candidate, pose_confirmation_frames, now, frame, raw_pose,
                   events, last_drag, raw_run, click_frame_time, lm>>
    /\ UNCHANGED otherVars

InitClassify ==
    /\ program \in Programs
    /\ lm \in ClassifierInputs(program)
    /\ classified = None
    /\ EngineInit
    /\ OthersAbsent

SpecClassify == InitClassify /\ [][Classify]_vars

\* the controller's classifier on every hand with degenerate geometry
InitDegenerate ==
    /\ program = "controller"
    /\ lm \in DegenerateInputs
    /\ classified = None
    /\ EngineInit
    /\ OthersAbsent

SpecDegenerate == InitDegenerate /\ [][Classify]_vars

\* ---------------------------------------------------------------- pc-server
\* The handler of src/pc-server/main.py.  Cursor positions are integers in
\* units of 1/SMOOTHING_DEN pixel, so that the smoothing of a whole-pixel
\* displacement is exact.  json.loads accepts the literal NaN, so a
\* displacement can be a NaN.
\* SMOOTHING_FACTOR = 0.4 = SMOOTHING_NUM / SMOOTHING_DEN
SMOOTHING_NUM == 2
SMOOTHING_DEN == 5
JOYSTICK_SENSITIVITY == 1

\* pyautogui.size(), in pixels
SCREEN_WIDTH == 4
SCREEN_HEIGHT == 3
\* the largest displacement of one message, in pixels
MaxDisplacement == 3

\* data.get('x', 0.0), data.get('y', 0.0)
Displacements ==
    {Float(d * SMOOTHING_DEN) : d \in (-MaxDisplacement)..MaxDisplacement} \cup {NaN}

\* Python's min(a, b) and max(a, b) for a number a: b is returned only when
\* the comparison b < a (b > a) is true, which it is for no NaN
PyMin(a, b) == IF ~b.nan /\ b.v < a THEN b ELSE Float(a)

PyMax(a, b) == IF ~b.nan /\ b.v > a THEN b ELSE Float(a)

\* lines 78-83: raw target from the last smoothed position, then the
\* exponential smoothing
ServerSmooth(smooth, d) ==
    IF d.nan THEN NaN
    ELSE LET raw_target == smooth + d.v * JOYSTICK_SENSITIVITY
         IN  Float((SMOOTHING_NUM * raw_target
                    + (SMOOTHING_DEN - SMOOTHING_NUM) * smooth) \div SMOOTHING_DEN)

\* mutant of ServerClamp: the upper edge is not enforced
ServerClamp_NoUpper(size, v) == PyMax(0, v).v

\* lines 86-87: max(0, min(size - 1, smooth))
ServerClamp(size, v) == PyMax(0, PyMin((size - 1) * SMOOTHING_DEN, v)).v

\* lines 71-94: one 'move' message
Move(dx, dy) ==
    /\ program = "server"
    /\ LET sx == ServerSmooth(smooth_x, dx)
           sy == ServerSmooth(smooth_y, dy)
           final_x == ServerClamp(SCREEN_WIDTH, sx)
           final_y == ServerClamp(SCREEN_HEIGHT, sy)
       IN  /\ unclamped' = <<sx, sy>>
           /\ smooth_x' = final_x
           /\ smooth_y' = final_y
           /\ sent' = <<final_x, final_y>>
    /\ UNCHANGED <<program, engineVars, lm, classified, sessionVars, threadVars,
                   malformed_log, config>>

\* line 63: a connection starts from pyautogui.position(), a pixel of the screen
InitMove ==
    /\ program = "server"
    /\ smooth_x \in {x * SMOOTHING_DEN : x \in 0..(SCREEN_WIDTH - 1)}
    /\ smooth_y \in {y * SMOOTHING_DEN : y \in 0..(SCREEN_HEIGHT - 1)}
    /\ unclamped = NoValue
    /\ sent = NoValue
    /\ SessionInit
    /\ ThreadInit
    /\ malformed_log = <<>>
    /\ config = Some(DefaultConfig)
    /\ EngineInit
    /\ lm = AbsentHand
    /\ classified = None

NextMove == \E dx \in Displacements, dy \in Displacements : Move(dx, dy)

SpecMove == InitMove /\ [][NextMove]_vars

\* ----------------------------------------------------------------- sessions
\* How a session ends: the loop of GestureController.run (ESC, or an exception
\* that reaches the finally block) and the connection of the pc-server
\* handler.  pyautogui.FAILSAFE is True in both programs: a pyautogui call
\* raises FailSafeException, before doing anything, when the cursor is in a
\* corner of the screen; where the cursor is depends on the user's hand and
\* mouse, so whether a call raises is a choice.
SessionPrograms == {"controller", "server"}

\* the primary button of the pointer is held: in the controller mouseDown and
\* mouseUp are the calls behind DragStart and DragEnd
ButtonDown == IF program = "server" THEN button_down ELSE last_drag = "DragStart"

\* one iteration of the loop while it runs
SessionIteration(s) ==
    /\ session = "running"
    /\ RunIteration(s, now)

\* the calls of an iteration that can raise first: mouseUp of the cleanup
\* (line 232) and moveTo of _update_cursor (line 155)
RaisePoints == {"cleanup", "cursor"}

\* an iteration in which the call at `at` raises FailSafeException: nothing
\* after that call is executed, the exception leaves the loop and the finally
\* block (lines 253-257) stops the tracker and closes the windows
RunIterationRaises(s, at) ==
    /\ program = "controller"
    /\ session = "running"
    /\ LET raw == IF s.hand THEN ControllerMatchPose(s.fingers) ELSE "Idle"
           o == ControllerObserve(raw)
           c == ControllerPoseChange(o)
       IN  /\ \/ /\ at = "cleanup"
                 /\ ControllerConfirms(o)
                 /\ is_dragging
                 /\ current_pose' = o.cand
                 /\ scroll_origin_y' = NoValue
                 /\ pose_candidate' = o.cand
                 /\ pose_confirmation_frames' = o.frames
                 /\ UNCHANGED is_dragging
                 /\ events' = <<>>
              \/ /\ at = "cursor"
                 /\ s.hand
                 /\ c.pose \in {"Pointer", "ThumbsUp"}
                 /\ current_pose' = c.pose
                 /\ scroll_origin_y' = c.org
                 /\ pose_candidate' = c.cand
                 /\ pose_confirmation_frames' = c.frames
                 /\ is_dragging' = c.drag
                 /\ events' = c.ev
           /\ raw_pose' = raw
           /\ raw_run' = RawRunAfter(raw)
    /\ last_drag' = LastDragAfter(events')
    /\ frame' = Measurements(s)
    /\ session' = "stopped"
    /\ UNCHANGED <<program, now, last_action_time, click_frame_time, lm, classified,
                   serverVars, button_down, threadVars, malformed_log, config>>

\* lines 250-251: waitKey returns 27 at the end of an iteration, the loop
\* breaks and the finally block runs
Esc ==
    /\ program = "controller"
    /\ session = "running"
    /\ raw_pose # None
    /\ session' = "stopped"
    /\ UNCHANGED <<program, engineVars, lm, classified, serverVars, button_down, threadVars,
                   malformed_log, config>>

\* pc-server, lines 109-111 and 116-118: 'drag_start'
DragStartMessage(raises) ==
    /\ program = "server"
    /\ session = "running"
    /\ button_down' = IF raises THEN button_down ELSE TRUE
    /\ events' = <<Ev("DragStart")>>
    /\ UNCHANGED <<program, current_pose, last_action_time, is_dragging, scroll_origin_y,
                   pose_candidate, pose_confirmation_frames, now, frame, raw_pose,
                   last_drag, raw_run, click_frame_time, lm, classified, serverVars,
                   session, threadVars, malformed_log, config>>

\* pc-server, lines 112-114 and 116-118: 'drag_end'
DragEndMessage(raises) ==
    /\ program = "server"
    /\ session = "running"
    /\ button_down' = IF raises THEN button_down ELSE FALSE
    /\ events' = <<Ev("DragEnd")>>
    /\ UNCHANGED <<program, current_pose, last_action_time, is_dragging, scroll_origin_y,
                   pose_candidate, pose_confirmation_frames, now, frame, raw_pose,
                   last_drag, raw_run, click_frame_time, lm, classified, serverVars,
                   session, threadVars, malformed_log, config>>

\* pc-server, lines 122-123: the client disconnects, the handler returns
ConnectionClosed ==
    /\ program = "server"
    /\ session = "running"
    /\ session' = "stopped"
    /\ UNCHANGED <<program, engineVars, lm, classified, serverVars, button_down, threadVars,
                   malformed_log, config>>

InitSession ==
    /\ program \in SessionPrograms
    /\ EngineInit
    /\ lm = AbsentHand
    /\ classified = None
    /\ ServerAbsent
    /\ SessionInit
    /\ ThreadInit
    /\ malformed_log = <<>>
    /\ config = Some(DefaultConfig)

NextSession ==
    \/ \E s \in DragSnapshots(program) : SessionIteration(s)
    \/ \E s \in DragSnapshots(program), at \in RaisePoints : RunIterationRaises(s, at)
    \/ Esc
    \/ \E raises \in BOOLEAN : DragStartMessage(raises)
    \/ \E raises \in BOOLEAN : DragEndMessage(raises)
    \/ ConnectionClosed

SpecSession == InitSession /\ [][NextSession]_vars

\* --------------------------------------------------------------- HandTracker
\* The capture thread (HandTracker.run) and the control loop's get_data,
\* interleaved step by step.  self.lock is held from the first access of the
\* slot to the last one: by the thread over lines 56-62, by get_data over
\* line 67.
\* the number of frames the camera delivers
MaxFrames == 6

\* a hand per pose of the stream, and no hand
PalmFingers ==
    [thumb |-> TRUE, index |-> TRUE, middle |-> TRUE, ring |-> TRUE, pinky |-> TRUE]

FistFingers ==
    [thumb |-> FALSE, index |-> FALSE, middle |-> FALSE, ring |-> FALSE, pinky |-> FALSE]

ThreadSnapshots ==
    {NoHand} \cup Hands({PalmFingers, FistFingers}, NoPinch("controller"),
                        NoPinch("controller"), NoPinch("controller"), {0})

\* raw_pose = self._get_hand_pose(landmarks), line 215
RawPoseOf(s) == IF s.hand THEN ControllerMatchPose(s.fingers) ELSE "Idle"

\* mutant of LockAvailable: the lock is not respected
LockAvailable_Ignored(l) == TRUE

\* `with self.lock` blocks until no one holds the lock
LockAvailable(l) == l = "free"

\* lines 47-54: cap.read() and hands.process() produce the next frame
Capture(s) ==
    /\ tracker_pc = "capture"
    /\ results.capture < MaxFrames
    /\ results' = [capture |-> results.capture + 1, snap |-> s]
    /\ tracker_pc' = "write_landmarks"
    /\ UNCHANGED <<program, engineVars, lm, classified, serverVars, sessionVars,
                   malformed_log, config,
                   landmarks, image_frame, lock, main_pc, got_landmarks, got_image,
                   cam_pose, cam_run, longest_run, running>>

\* lines 56-61: take the lock, write self.landmarks
WriteLandmarks ==
    /\ tracker_pc = "write_landmarks"
    /\ LockAvailable(lock)
    /\ lock' = "tracker"
    /\ landmarks' = results
    /\ tracker_pc' = "write_image"
    /\ UNCHANGED <<program, engineVars, lm, classified, serverVars, sessionVars,
                   malformed_log, config,
                   image_frame, results, main_pc, got_landmarks, got_image,
                   cam_pose, cam_run, longest_run, running>>

\* the run of equal poses that ends with one more snapshot of pose p
RunAfter(p) == IF p = cam_pose THEN cam_run + 1 ELSE 1

\* line 62: write self.image_frame, leave the `with` block; the snapshot of
\* this capture is now written
WriteImage ==
    /\ tracker_pc = "write_image"
    /\ image_frame' = results.capture
    /\ lock' = "free"
    /\ tracker_pc' = "capture"
    /\ LET p == RawPoseOf(results.snap)
       IN  /\ cam_pose' = p
           /\ cam_run' = RunAfter(p)
           /\ longest_run' = [longest_run EXCEPT ![p] =
                                  IF RunAfter(p) > @ THEN RunAfter(p) ELSE @]
    /\ UNCHANGED <<program, engineVars, lm, classified, serverVars, sessionVars,
                   malformed_log, config,
                   landmarks, results, main_pc, got_landmarks, got_image, running>>

\* lines 66-67: take the lock, read self.landmarks
GetLandmarks ==
    /\ main_pc = "get_data"
    /\ LockAvailable(lock)
    /\ lock' = "main"
    /\ got_landmarks' = landmarks
    /\ main_pc' = "read_image"
    /\ UNCHANGED <<program, engineVars, lm, classified, serverVars, sessionVars,
                   malformed_log, config,
                   landmarks, image_frame, tracker_pc, results, got_image,
                   cam_pose, cam_run, longest_run, running>>

\* line 67: read self.image_frame, return the pair, leave the `with` block
GetImage ==
    /\ main_pc = "read_image"
    /\ got_image' = image_frame
    /\ lock' = "free"
    /\ main_pc' = "iterate"
    /\ UNCHANGED <<program, engineVars, lm, classified, serverVars, sessionVars,
                   malformed_log, config,
                   landmarks, image_frame, tracker_pc, results, got_landmarks,
                   cam_pose, cam_run, longest_run, running>>

\* lines 215-252 on the pair get_data returned
ThreadedIteration ==
    /\ main_pc = "iterate"
    /\ LoopBody(got_landmarks.snap, now)
    /\ main_pc' = "get_data"
    /\ UNCHANGED <<serverVars, sessionVars, malformed_log, config, landmarks, image_frame,
                   lock, tracker_pc,
                   results, got_landmarks, got_image, cam_pose, cam_run, longest_run, running>>

\* run, line 206: the tracker is started before the loop
InitThreaded ==
    /\ program = "controller"
    /\ EngineInit
    /\ lm = AbsentHand
    /\ classified = None
    /\ OthersAbsent

NextThreaded ==
    \/ \E s \in ThreadSnapshots : Capture(s)
    \/ WriteLandmarks
    \/ WriteImage
    \/ GetLandmarks
    \/ GetImage
    \/ ThreadedIteration

SpecThreaded == InitThreaded /\ [][NextThreaded]_vars

\* ------------------------------------------------------------------ shutdown
\* The capture thread from Thread.start() to the end of HandTracker.run, and
\* GestureController.run from line 206 to line 257, interleaved step by
\* step.  Thread.start() returns once the new thread exists, which is before
\* the thread executes the first statement of run.  The run-length
\* bookkeeping of the snapshots is not kept here, and a frame is marked 1.
\* HandTracker.__init__, lines 30-35, and GestureController.__init__
InitShutdown ==
    /\ program = "controller"
    /\ EngineInit
    /\ lm = AbsentHand
    /\ classified = None
    /\ ServerAbsent
    /\ SessionInit
    /\ malformed_log = <<>>
    /\ config = Some(DefaultConfig)
    /\ landmarks = EmptySlot
    /\ image_frame = 0
    /\ lock = "free"
    /\ tracker_pc = "unstarted"
    /\ results = EmptySlot
    /\ main_pc = "start"
    /\ got_landmarks = EmptySlot
    /\ got_image = 0
    /\ cam_pose = None
    /\ cam_run = 0
    /\ longest_run = [p \in Poses |-> 0]
    /\ running = FALSE

\* what the shutdown steps of the control loop leave alone
ShutdownMainFrame ==
    UNCHANGED <<program, engineVars, lm, classified, serverVars, sessionVars,
                malformed_log, config, landmarks, image_frame, results,
                got_landmarks, got_image, cam_pose, cam_run, longest_run>>

\* what the steps of the capture thread leave alone
ShutdownTrackerFrame ==
    UNCHANGED <<program, engineVars, lm, classified, serverVars, sessionVars,
                malformed_log, config, main_pc, got_landmarks, got_image,
                cam_pose, cam_run, longest_run>>

\* line 206: self.tracker.start()
StartTracker ==
    /\ main_pc = "start"
    /\ tracker_pc = "unstarted"
    /\ main_pc' = "get_data"
    /\ tracker_pc' = "run"
    /\ UNCHANGED <<lock, running>>
    /\ ShutdownMainFrame

\* lines 215-252 on the pair get_data returned; _update_debug_window reads a
\* key only when the frame is not None, and ESC leaves the loop (line 251)
ShutdownIteration(esc) ==
    /\ main_pc = "iterate"
    /\ esc => got_image # 0
    /\ LoopBody(got_landmarks.snap, now)
    /\ main_pc' = IF esc THEN "stop" ELSE "get_data"
    /\ UNCHANGED <<serverVars, sessionVars, malformed_log, config, landmarks,
                   image_frame, lock, tracker_pc, results, got_landmarks, got_image,
                   cam_pose, cam_run, longest_run, running>>

\* an exception raised inside the try block, lines 211-252 (KeyboardInterrupt
\* at any statement): control passes to the finally clause; `with self.lock`
\* releases the lock on the way out
Raise ==
    /\ main_pc \in {"get_data", "read_image", "iterate"}
    /\ main_pc' = "stop"
    /\ lock' = IF lock = "main" THEN "free" ELSE lock
    /\ UNCHANGED <<tracker_pc, running>>
    /\ ShutdownMainFrame

\* line 255: self.tracker.stop(), lines 69-70
Stop ==
    /\ main_pc = "stop"
    /\ running' = FALSE
    /\ main_pc' = "join"
    /\ UNCHANGED <<lock, tracker_pc>>
    /\ ShutdownMainFrame

\* lines 256-257: self.tracker.join() returns when run has returned
Join ==
    /\ main_pc = "join"
    /\ tracker_pc = "finished"
    /\ main_pc' = "closed"
    /\ UNCHANGED <<lock, tracker_pc, running>>
    /\ ShutdownMainFrame

\* lines 38-44: the first statement of run sets the flag, then the set-up
TrackerRun ==
    /\ tracker_pc = "run"
    /\ running' = TRUE
    /\ tracker_pc' = "loop"
    /\ UNCHANGED <<landmarks, image_frame, lock, results>>
    /\ ShutdownTrackerFrame

\* line 46: while self.running
TrackerLoopTest ==
    /\ tracker_pc = "loop"
    /\ tracker_pc' = IF running THEN "capture" ELSE "release"
    /\ UNCHANGED <<landmarks, image_frame, lock, results, running>>
    /\ ShutdownTrackerFrame

\* lines 47, 52-54: cap.read() succeeds, hands.process() yields snapshot s
TrackerRead(s) ==
    /\ tracker_pc = "capture"
    /\ results' = [capture |-> 1, snap |-> s]
    /\ tracker_pc' = "write_landmarks"
    /\ UNCHANGED <<landmarks, image_frame, lock, running>>
    /\ ShutdownTrackerFrame

\* lines 48-50: cap.read() fails; sleep, continue
TrackerReadFails ==
    /\ tracker_pc = "capture"
    /\ tracker_pc' = "loop"
    /\ UNCHANGED <<landmarks, image_frame, lock, results, running>>
    /\ ShutdownTrackerFrame

\* line 62: write self.image_frame, leave the `with` block, back to line 46
TrackerWriteImage ==
    /\ tracker_pc = "write_image"
    /\ image_frame' = results.capture
    /\ lock' = "free"
    /\ tracker_pc' = "loop"
    /\ UNCHANGED <<landmarks, results, running>>
    /\ ShutdownTrackerFrame

\* line 63: cap.release(); run returns
TrackerRelease ==
    /\ tracker_pc = "release"
    /\ tracker_pc' = "finished"
    /\ UNCHANGED <<landmarks, image_frame, lock, results, running>>
    /\ ShutdownTrackerFrame

\* the statements of the control loop's thread
MainStep ==
    \/ StartTracker
    \/ GetLandmarks
    \/ GetImage
    \/ \E esc \in BOOLEAN : ShutdownIteration(esc)
    \/ Stop
    \/ Join

\* the statements of the capture thread
TrackerStep ==
    \/ TrackerRun
    \/ TrackerLoopTest
    \/ \E s \in ThreadSnapshots : TrackerRead(s)
    \/ TrackerReadFails
    \/ WriteLandmarks
    \/ TrackerWriteImage
    \/ TrackerRelease

NextShutdown ==
    \/ MainStep
    \/ Raise
    \/ TrackerStep

SpecShutdown == InitShutdown /\ [][NextShutdown]_vars

\* both threads keep being scheduled; an exception and the ESC key need not
\* happen
SpecShutdownFair ==
    /\ SpecShutdown
    /\ WF_vars(MainStep)
    /\ WF_vars(TrackerStep)

\* ------------------------------------------------------- malformed snapshots
\* A hand whose landmark list is short, and a hand whose coordinates are all
\* NaN.  Neither _get_hand_pose checks the list it indexes, and neither
\* recognize nor run catches an exception.
\* the highest landmark index _get_hand_pose reads
HIGHEST_LANDMARK == 20

\* the number of malformed snapshots of an execution
MaxMalformed == 1

\* the lengths of a landmark list that is too short
ShortCounts == 1..HIGHEST_LANDMARK

\* landmark_list[i] on a list of n points
IndexRaises(n, i) == i >= n

\* what a step on a malformed snapshot ended with: the pose the classifier
\* returned (None: it did not return) and the exception that left the step
Outcome(pose, fault) == [pose |-> pose, fault |-> fault]

\* every comparison with a NaN is False: no finger counts as extended, no
\* distance is below the pinch threshold or above the release threshold
NanHand(p) ==
    [hand |-> TRUE, fingers |-> FistFingers, thumb_index |-> PinchThresholdOf(p),
     thumb_middle |-> PinchThresholdOf(p), thumb_ring |-> PinchThresholdOf(p),
     index_y |-> 0]

\* a step on a list of n points: the read of landmark 20 (gesture_detector.py
\* line 69, main.py line 107), or an earlier one, raises IndexError before
\* any field is written; the exception leaves recognize and, in the
\* controller, the loop
ShortStep(n) ==
    /\ session = "running"
    /\ Len(malformed_log) < MaxMalformed
    /\ IndexRaises(n, HIGHEST_LANDMARK)
    /\ malformed_log' = Append(malformed_log, Outcome(None, "IndexError"))
    /\ session' = IF program = "controller" THEN "stopped" ELSE session
    /\ UNCHANGED <<program, engineVars, lm, classified, serverVars, button_down, threadVars,
                   config>>

\* recognize on a hand of NaN coordinates
NanRecognize ==
    /\ program = "detector"
    /\ Len(malformed_log) < MaxMalformed
    /\ RecognizeBody(NanHand(program), now)
    /\ malformed_log' = Append(malformed_log,
                               Outcome(DetectorMatchPose(NanHand(program).fingers), None))
    /\ UNCHANGED <<serverVars, sessionVars, threadVars, config>>

\* the handlers of the controller that raise on NaN coordinates:
\* int(delta_y * 400) raises ValueError (line 194); pyautogui.moveTo(nan, nan)
\* (line 155) is the library's to accept or to refuse
NanHandlerRaises(pose, moveto_raises) ==
    \/ pose = "PeaceSign"
    \/ pose \in {"Pointer", "ThumbsUp"} /\ moveto_raises

\* one iteration of run on a hand of NaN coordinates
NanIteration(moveto_raises) ==
    /\ program = "controller"
    /\ session = "running"
    /\ Len(malformed_log) < MaxMalformed
    /\ LET raw == ControllerMatchPose(NanHand(program).fingers)
           o == ControllerObserve(raw)
           c == ControllerPoseChange(o)
       IN  IF NanHandlerRaises(c.pose, moveto_raises)
           THEN /\ current_pose' = c.pose
                /\ pose_candidate' = c.cand
                /\ pose_confirmation_frames' = c.frames
                /\ is_dragging' = c.drag
                /\ scroll_origin_y' = IF c.pose = "PeaceSign" /\ c.org = NoValue
                                      THEN Some(NaN) ELSE c.org
                /\ events' = c.ev
                /\ raw_pose' = raw
                /\ raw_run' = RawRunAfter(raw)
                /\ last_drag' = LastDragAfter(c.ev)
                /\ frame' = Measurements(NanHand(program))
                /\ malformed_log' = Append(malformed_log, Outcome(raw, "ValueError"))
                /\ session' = "stopped"
                /\ UNCHANGED <<program, now, last_action_time, click_frame_time, lm,
                               classified>>
           ELSE /\ LoopBody(NanHand(program), now)
                /\ malformed_log' = Append(malformed_log, Outcome(raw, None))
                /\ UNCHANGED session
    /\ UNCHANGED <<serverVars, button_down, threadVars, config>>

\* a step on a well-formed snapshot
OrdinaryStep(s) ==
    /\ session = "running"
    /\ Step(s, now)

NextMalformed ==
    \/ \E s \in ScrollSnapshots(program) : OrdinaryStep(s)
    \/ \E n \in ShortCounts : ShortStep(n)
    \/ NanRecognize
    \/ \E moveto_raises \in BOOLEAN : NanIteration(moveto_raises)

SpecMalformed == Init /\ [][NextMalformed]_vars

\* -------------------------------------------------------------- construction
\* GestureDetector(action_cooldown, pinch_threshold): the arguments are
\* stored as they come.  The cooldown is in units of 0.5 s, the threshold in
\* units of 0.005.
\* the largest magnitude of an argument
MaxConfig == 5

ConfigValues == (-MaxConfig)..MaxConfig

\* __init__, lines 39-46
Construct(action_cooldown, pinch_threshold) ==
    /\ program = "detector"
    /\ config = NoValue
    /\ config' = Some([action_cooldown |-> action_cooldown,
                       pinch_threshold |-> pinch_threshold])
    /\ current_pose' = "Idle"
    /\ last_action_time' = 0
    /\ is_dragging' = FALSE
    /\ scroll_origin_y' = NoValue
    /\ UNCHANGED <<program, pose_candidate, pose_confirmation_frames, now, frame, raw_pose,
                   events, last_drag, raw_run, click_frame_time, lm, classified,
                   serverVars, sessionVars, threadVars, malformed_log>>

\* no instance yet
InitConstruct ==
    /\ program = "detector"
    /\ config = NoValue
    /\ EngineInit
    /\ lm = AbsentHand
    /\ classified = None
    /\ ServerAbsent
    /\ SessionInit
    /\ ThreadInit
    /\ malformed_log = <<>>

NextConstruct == \E c \in ConfigValues, t \in ConfigValues : Construct(c, t)

SpecConstruct == InitConstruct /\ [][NextConstruct]_vars

\* =================================================================== claims
ThresholdOf == PinchThresholdOf(program)

DragEventsOf(evs) == SelectSeq(evs, LAMBDA e : e.kind \in DragKinds)

ClickEventsOf(evs) == SelectSeq(evs, LAMBDA e : e.kind \in ClickKinds)

ScrollEventsOf(evs) == SelectSeq(evs, LAMBDA e : e.kind = "Scroll")

\* seq continues a stream whose latest drag event was prev (None: no drag
\* event yet) with DragStart and DragEnd taking turns, DragStart first
TakesTurns(prev, seq) ==
    \A i \in DOMAIN seq :
        seq[i].kind =
            (IF (IF i = 1 THEN prev ELSE seq[i - 1].kind) = "DragStart"
             THEN "DragEnd" ELSE "DragStart")

C1_Step ==
    /\ (current_pose = "ThumbsUp" /\ is_dragging /\ current_pose' # "ThumbsUp")
          => /\ DragEventsOf(events') = <<Ev("DragEnd")>>
             /\ ~is_dragging'
    /\ TakesTurns(last_drag, DragEventsOf(events'))

C2_DragIsPoseScoped == is_dragging => current_pose = "ThumbsUp"

\* the controller is dragging and one observation short of confirming a pose
\* change
C2_Witness ==
    /\ program = "controller"
    /\ is_dragging
    /\ current_pose = "ThumbsUp"
    /\ pose_candidate \in Poses
    /\ pose_confirmation_frames = POSE_CONFIRMATION_THRESHOLD - 1

\* C3: after every step, scroll_origin_y is None whenever current_pose is not
\* PeaceSign.
C3_ScrollOriginIsPoseScoped == current_pose # "PeaceSign" => scroll_origin_y = NoValue

\* raw PeaceSign frames with a hand are arriving but the confirmed pose is
\* still another one
C3_Witness ==
    /\ program = "controller"
    /\ current_pose = "OpenPalm"
    /\ raw_pose = "PeaceSign"
    /\ frame.hand /\ frame.index_y > 0
    /\ pose_confirmation_frames = POSE_CONFIRMATION_THRESHOLD - 1
    /\ scroll_origin_y = NoValue

C4_Step ==
    program = "controller" =>
        \* a raw frame of the confirmed pose confirms nothing and clears the
        \* candidate and the run length
        /\ raw_pose' = current_pose
              => /\ current_pose' = current_pose
                 /\ pose_candidate' = None
                 /\ pose_confirmation_frames' = 0
        \* the confirmed pose changes only to the raw pose of the last N
        \* observations
        /\ current_pose' # current_pose
              => /\ raw_pose' = current_pose'
                 /\ raw_run' >= POSE_CONFIRMATION_THRESHOLD
        \* and it does change on the N-th of them
        /\ (raw_pose' # current_pose /\ raw_run' >= POSE_CONFIRMATION_THRESHOLD)
              => current_pose' = raw_pose'

\* C4: debounce.  With N the confirmation threshold: a raw frame of the
\* confirmed pose C leaves C confirmed and clears candidate and run length (so
\* N-1 frames of P and then one of C confirm nothing); the confirmed pose
\* changes only to a pose that was the raw pose of the last N observations,
\* and it changes on the N-th of them.
C4_Debounce == [][C4_Step]_vars

\* a pose other than the initial one was confirmed by a run of N raw frames
C4_Witness ==
    /\ program = "controller"
    /\ current_pose = "Pointer"
    /\ raw_pose = "Pointer"
    /\ raw_run = POSE_CONFIRMATION_THRESHOLD
    /\ pose_candidate = None
    /\ pose_confirmation_frames = 0

C5_Step ==
    (current_pose' = "ThumbsUp" /\ frame'.hand) =>
        LET d == frame'.thumb_index
            kinds == Kinds(events')
        IN  /\ "DragEnd" \in kinds => d > ThresholdOf + RELEASE_MARGIN
            /\ "DragStart" \in kinds => d < ThresholdOf
            /\ (is_dragging /\ d <= ThresholdOf + RELEASE_MARGIN) => is_dragging'
            /\ (d >= ThresholdOf /\ d <= ThresholdOf + RELEASE_MARGIN)
                  => /\ kinds \cap DragKinds = {}
                     /\ is_dragging' = is_dragging

\* C5: drag hysteresis.  In a frame handled in the ThumbsUp pose DragStart
\* fires only below the pinch threshold, DragEnd only strictly above
\* threshold + release margin, an active drag stays active up to and including
\* threshold + margin, and a distance in [threshold, threshold + margin] emits
\* no drag event and leaves is_dragging as it was.
C5_Hysteresis == [][C5_Step]_vars

\* a drag held at the upper edge of the band
C5_Witness ==
    /\ current_pose = "ThumbsUp"
    /\ is_dragging
    /\ frame.hand
    /\ frame.thumb_index = ThresholdOf + RELEASE_MARGIN
    /\ events = <<>>
    /\ last_drag = "DragStart"

PinchFrame(f) ==
    /\ f.hand
    /\ \/ f.thumb_index < ThresholdOf
       \/ f.thumb_middle < ThresholdOf
       \/ f.thumb_ring < ThresholdOf

Clicked(evs) == ClickEventsOf(evs) # <<>>

\* of two pinch frames less than the cooldown apart at most one clicks
C6_AtMostOne ==
    (Clicked(events') /\ click_frame_time # NoValue)
        => ~(now - click_frame_time[1] < ACTION_COOLDOWN)

C6_OriginalStep ==
    (~Tick /\ current_pose' = "Pointer" /\ PinchFrame(frame')) =>
        /\ C6_AtMostOne
        /\ (/\ current_pose = "Pointer" /\ PinchFrame(frame) /\ Clicked(events)
            /\ click_frame_time # NoValue
            /\ now - click_frame_time[1] > ACTION_COOLDOWN)
              => /\ Clicked(events')
                 /\ last_action_time' = now

\* C6 as claimed: of two Pointer-pose pinch frames less than the cooldown
\* apart at most one clicks; when the frame after a clicking frame comes more
\* than the cooldown later it clicks too, and a click sets last_action_time to
\* its frame's time.
C6_Original == [][C6_OriginalStep]_vars

C6_Step ==
    (~Tick /\ current_pose' = "Pointer" /\ PinchFrame(frame')) =>
        /\ C6_AtMostOne
        /\ Clicked(events') <=> (now - last_action_time) > ACTION_COOLDOWN
        /\ Clicked(events') => /\ Len(ClickEventsOf(events')) = 1
                               /\ last_action_time' >= now

\* C6, amended: of two Pointer-pose pinch frames less than the cooldown apart
\* at most one clicks; a pinch frame clicks exactly when its clock reading
\* exceeds last_action_time by more than the cooldown, and the click sets
\* last_action_time to a clock reading taken at or after the frame's.
C6_Cooldown == [][C6_Step]_vars

\* a pinch frame in the Pointer pose that the cooldown of an earlier click
\* silenced
C6_Witness ==
    /\ current_pose = "Pointer"
    /\ PinchFrame(frame)
    /\ events = <<>>
    /\ click_frame_time # NoValue
    /\ now - click_frame_time[1] < ACTION_COOLDOWN

ExpectedClick(f) ==
    IF f.thumb_index < ThresholdOf THEN <<Ev("LeftClick")>>
    ELSE IF f.thumb_middle < ThresholdOf THEN <<Ev("RightClick")>>
    ELSE IF f.thumb_ring < ThresholdOf THEN <<Ev("DoubleClick")>>
    ELSE <<>>

C7_Step ==
    (/\ ~Tick /\ current_pose' = "Pointer" /\ frame'.hand
     /\ (now - last_action_time) > ACTION_COOLDOWN)
        => /\ ClickEventsOf(events') = ExpectedClick(frame')
           /\ Len(ClickEventsOf(events')) = (IF PinchFrame(frame') THEN 1 ELSE 0)

\* C7: click priority.  A Pointer frame with the cooldown elapsed emits
\* exactly one click when a pinch distance is below the threshold and none
\* otherwise: LeftClick for thumb-index, else RightClick for thumb-middle,
\* else DoubleClick for thumb-ring, whatever the lower-priority distances.
C7_ClickPriority == [][C7_Step]_vars

\* a RightClick while the ring finger pinches as well
C7_Witness ==
    /\ current_pose = "Pointer"
    /\ events = <<Ev("RightClick")>>
    /\ frame.thumb_index >= ThresholdOf
    /\ frame.thumb_middle < ThresholdOf
    /\ frame.thumb_ring < ThresholdOf

\* the frame before this one was handled in the PeaceSign pose too
C8_LaterFrame == current_pose = "PeaceSign" /\ frame.hand

C8_FirstFrame == current_pose # "PeaceSign"

C8_OriginalStep ==
    (current_pose' = "PeaceSign" /\ frame'.hand) =>
        /\ scroll_origin_y' = Some(frame'.index_y)
        /\ C8_FirstFrame => ScrollEventsOf(events') \in {<<>>, <<ScrollEv(0)>>}
        /\ C8_LaterFrame => events' = <<ScrollEv(frame.index_y - frame'.index_y)>>

\* C8 as claimed: in a run of PeaceSign frames the first only seeds the
\* origin (no delta but 0), every later frame emits Scroll with the
\* difference to the frame before, and after each frame scroll_origin_y is
\* that frame's y.
C8_Original == [][C8_OriginalStep]_vars

C8_Step ==
    (current_pose' = "PeaceSign" /\ frame'.hand) =>
        /\ scroll_origin_y' = Some(frame'.index_y)
        /\ C8_FirstFrame => ScrollEventsOf(events') \in {<<>>, <<ScrollEv(0)>>}
        /\ C8_LaterFrame =>
              LET delta == frame.index_y - frame'.index_y
                  \* int(delta * 400) with delta in units of 0.005
                  amount == 2 * delta
              IN  events' = (IF program = "detector" \/ amount > 3 \/ amount < -3
                             THEN <<ScrollEv(delta)>> ELSE <<>>)

\* C8, amended: the first PeaceSign frame only seeds the origin, every later
\* frame takes delta as the difference to the frame before and re-anchors the
\* origin at its own y; the detector emits Scroll{delta} on every such frame,
\* the controller only when abs(int(delta * 400)) > 3.
C8_Reanchor == [][C8_Step]_vars

\* the controller dispatched a per-frame delta large enough to pass its gate
C8_Witness ==
    /\ program = "controller"
    /\ current_pose = "PeaceSign"
    /\ events = <<ScrollEv(2)>>
    /\ scroll_origin_y = Some(0)

\* the rule table of the claim: the pose of the first rule that matches
TableRules == <<"CallMe", "ThumbsUp", "OpenPalm", "Fist", "Pointer", "PeaceSign">>

TableRuleHolds(k, f) ==
    CASE k = 1 -> f.thumb /\ f.pinky /\ ~f.index /\ ~f.middle /\ ~f.ring
      [] k = 2 -> f.thumb /\ ~f.index /\ ~f.middle /\ ~f.ring /\ ~f.pinky
      [] k = 3 -> f.index /\ f.middle /\ f.ring /\ f.pinky
      [] k = 4 -> ~f.index /\ ~f.middle /\ ~f.ring /\ ~f.pinky
      [] k = 5 -> f.index /\ ~f.middle /\ ~f.ring /\ ~f.pinky
      [] k = 6 -> f.index /\ f.middle /\ ~f.ring /\ ~f.pinky

TablePose(f) ==
    LET hit == {k \in DOMAIN TableRules : TableRuleHolds(k, f)}
    IN  IF hit = {} THEN "Idle"
        ELSE TableRules[CHOOSE k \in hit : \A j \in hit : k <= j]

\* C9: the classifier returns Idle for NoHand and, for the five
\* finger-extension results of a snapshot, the pose of the first matching rule
\* of the table CallMe, ThumbsUp, OpenPalm, Fist, Pointer, PeaceSign, else
\* Idle; the result is always a pose.
C9_PrecedenceTable ==
    classified # None =>
        /\ classified \in Poses
        /\ classified = (IF lm.hand THEN TablePose(FingerStates(program, lm)) ELSE "Idle")

\* the controller classified thumb up with four fingers down, which its own
\* Fist rule excludes and the table's Fist rule admits
C9_Witness ==
    /\ program = "controller"
    /\ lm.hand
    /\ classified = "ThumbsUp"

\* the rule conditions, as written in the classifier of p, that f satisfies
SatisfiedRules(p, f) ==
    IF p = "detector"
    THEN {r \in Poses :
            \/ r = "CallMe" /\ DetCondCallMe(f)
            \/ r = "ThumbsUp" /\ DetCondThumbsUp(f)
            \/ r = "OpenPalm" /\ DetCondOpenPalm(f)
            \/ r = "Fist" /\ DetCondFist(f)
            \/ r = "Pointer" /\ DetCondPointer(f)
            \/ r = "PeaceSign" /\ DetCondPeaceSign(f)}
    ELSE {r \in Poses :
            \/ r = "CallMe" /\ CtlCondCallMe(f)
            \/ r = "ThumbsUp" /\ CtlCondThumbsUp(f)
            \/ r = "OpenPalm" /\ CtlCondOpenPalm(f)
            \/ r = "Fist" /\ CtlCondFist(f)
            \/ r = "Pointer" /\ CtlCondPointer(f)
            \/ r = "PeaceSign" /\ CtlCondPeaceSign(f)}

\* C10 as claimed: no finger combination satisfies more than one of the six
\* rule conditions as written.
C10_Original ==
    (classified # None /\ lm.hand) =>
        Cardinality(SatisfiedRules(program, FingerStates(program, lm))) <= 1

\* C10, amended: the controller's six rule conditions are mutually exclusive;
\* the detector's are too except that thumb up with four fingers down
\* satisfies both ThumbsUp and Fist, where the order of the rules decides and
\* yields ThumbsUp.
C10_Exclusive ==
    (classified # None /\ lm.hand) =>
        LET f == FingerStates(program, lm)
            sat == SatisfiedRules(program, f)
        IN  \/ Cardinality(sat) <= 1
            \/ /\ program = "detector"
               /\ sat = {"ThumbsUp", "Fist"}
               /\ f.thumb /\ ~f.index /\ ~f.middle /\ ~f.ring /\ ~f.pinky
               /\ classified = "ThumbsUp"

\* the detector classified the one combination that satisfies two rules
C10_Witness ==
    /\ program = "detector"
    /\ lm.hand
    /\ classified = "ThumbsUp"
    /\ Cardinality(SatisfiedRules(program, FingerStates(program, lm))) = 2

\* the largest x and y of the screen, in position units
LastColumn == (SCREEN_WIDTH - 1) * SMOOTHING_DEN

LastRow == (SCREEN_HEIGHT - 1) * SMOOTHING_DEN

\* final is v held to 0..last when v is beyond an edge
HeldToEdge(v, last, final) ==
    /\ (~v.nan /\ v.v > last) => final = last
    /\ (~v.nan /\ v.v < 0) => final = 0

C11_Step ==
    /\ sent' \in (0..LastColumn) \X (0..LastRow)
    /\ <<smooth_x', smooth_y'>> = sent'
    /\ HeldToEdge(unclamped'[1], LastColumn, sent'[1])
    /\ HeldToEdge(unclamped'[2], LastRow, sent'[2])
    /\ sent # NoValue =>
          \E dx \in Displacements, dy \in Displacements :
              unclamped' = <<ServerSmooth(sent[1], dx), ServerSmooth(sent[2], dy)>>

\* C11: after every 'move' message of the pc-server the position passed to
\* moveTo lies on the screen, the held smoothed position equals it, a
\* smoothed value beyond an edge is sent as exactly that edge, and the next
\* move is computed from the position sent, not from the value before the
\* clamp.
C11_ClampedMove == [][C11_Step]_vars

\* a move was pushed past the right edge while the cursor is on the top row
C11_Witness ==
    /\ sent # NoValue
    /\ ~unclamped[1].nan
    /\ unclamped[1].v > LastColumn
    /\ sent[1] = LastColumn
    /\ sent[2] = 0

\* C12: once the raw classified pose is never ThumbsUp again, a drag in
\* progress is eventually ended: DragEnd is emitted and is_dragging is false.
C12_DragEventuallyEnds ==
    <>[](raw_pose # "ThumbsUp") =>
        (is_dragging ~> (~is_dragging /\ last_drag = "DragEnd"))

\* C12 restricted to the detector, which ends the drag on the first frame
\* whose pose is not ThumbsUp
C12_DetectorDragEnds ==
    <>[](raw_pose # "ThumbsUp") =>
        ((program = "detector" /\ is_dragging) ~> (~is_dragging /\ last_drag = "DragEnd"))

\* C13: when a session has stopped (the controller's loop has terminated, the
\* client's connection has ended) the primary button is not held: every
\* mouseDown has been followed by a mouseUp.
C13_NoStuckButton == session = "stopped" => ~ButtonDown

\* the controller's loop ended by ESC, without an exception, with the button held
C13_EscWhileDragging ==
    /\ program = "controller"
    /\ session = "stopped"
    /\ is_dragging
    /\ ButtonDown
    /\ pose_candidate = None

\* C14: in the threaded controller the confirmed pose changes to a pose only
\* after the capture thread has written POSE_CONFIRMATION_THRESHOLD
\* consecutive snapshots of that pose.
C14_ConfirmsCameraFrames ==
    [][current_pose' # current_pose =>
          longest_run[current_pose'] >= POSE_CONFIRMATION_THRESHOLD]_vars

\* a pose confirmed when the camera has delivered a single frame
C14_ConfirmedOnOneFrame ==
    /\ current_pose = "OpenPalm"
    /\ results.capture = 1

\* C15: get_data returns the landmarks and the image of one capture, the one
\* whose write completed last (capture 0: the initial empty pair).
C15_NoTornRead ==
    /\ main_pc = "read_image" => got_landmarks.capture = image_frame
    /\ main_pc = "iterate" => /\ got_landmarks.capture = got_image
                              /\ got_landmarks \in {EmptySlot} \cup
                                     {[capture |-> c, snap |-> s] :
                                          c \in 1..results.capture, s \in ThreadSnapshots}

\* get_data has returned the pair of a capture while the thread, holding the
\* next frame, waits for or has just taken the lock
C15_Witness ==
    /\ main_pc = "iterate"
    /\ got_image >= 1
    /\ results.capture > got_image
    /\ tracker_pc # "capture"

DiscreteKinds == ClickKinds \cup DragKinds \cup {"ShowDesktop"}

Occurrences(evs, k) == Cardinality({i \in DOMAIN evs : evs[i].kind = k})

\* the step leaves a pose in which a drag was in progress
CleansUpDrag == is_dragging /\ current_pose' # current_pose

C16_Step ==
    /\ \A k \in DiscreteKinds : Occurrences(events', k) <= 1
    /\ ~(DragKinds \subseteq Kinds(events'))
    /\ CleansUpDrag =>
          /\ events' # <<>>
          /\ events'[1].kind = "DragEnd"
          /\ \A i \in 2..Len(events') : events'[i].kind # "DragEnd"

\* C16: in the event list of a step every discrete event kind occurs at most
\* once, DragStart and DragEnd never occur together, and the DragEnd of the
\* pose-change cleanup is the first event of its frame and the only DragEnd.
C16_EventListShape == [][C16_Step]_vars

\* the detector returned the cleanup's DragEnd followed by a click
C16_Witness ==
    /\ program = "detector"
    /\ Len(events) = 2
    /\ events[1].kind = "DragEnd"
    /\ events[2].kind \in ClickKinds

\* the bookkeeping after an observation whose raw pose differs from the raw
\* pose of the frame before
AfterChangedRaw ==
    \/ /\ raw_pose' = current_pose'
       /\ pose_candidate' = None
       /\ pose_confirmation_frames' = 0
    \/ /\ pose_candidate' = raw_pose'
       /\ pose_confirmation_frames' = 1

\* the bookkeeping after every observation
AfterObservation ==
    /\ pose_candidate' # None => pose_candidate' # current_pose'
    /\ pose_confirmation_frames' = 0 <=> pose_candidate' = None
    /\ pose_confirmation_frames' \in 0..(POSE_CONFIRMATION_THRESHOLD - 1)

C17_Step ==
    /\ raw_pose' # raw_pose => AfterChangedRaw
    /\ AfterObservation

\* C17: an observation whose raw pose differs from the previous frame's
\* leaves the run length at 0 (raw pose is the confirmed pose) or at 1 (new
\* candidate); after every observation a candidate differs from the
\* confirmed pose, the run length is 0 exactly when there is no candidate,
\* and the run length is below the confirmation threshold.
C17_RunLength == [][C17_Step]_vars

\* the controller, in a pose it confirmed, has just taken a new candidate
\* from a raw pose that differs from the previous frame's
C17_Witness ==
    /\ program = "controller"
    /\ current_pose \notin {"Idle", raw_pose}
    /\ pose_candidate = raw_pose
    /\ pose_confirmation_frames = 1
    /\ raw_run = 1

\* the pose fields after an ordinary frame without a hand
AfterIdleFrame ==
    IF program = "detector"
    THEN LET c == DetectorPoseChange("Idle")
         IN  <<"Idle", None, 0, c.drag, c.org>>
    ELSE LET c == ControllerPoseChange(ControllerObserve("Idle"))
         IN  <<c.pose, c.cand, c.frames, c.drag, c.org>>

C18_Step ==
    Len(malformed_log') > Len(malformed_log) =>
        /\ malformed_log'[Len(malformed_log')] = Outcome("Idle", None)
        /\ session' = session
        /\ <<current_pose', pose_candidate', pose_confirmation_frames',
             is_dragging', scroll_origin_y'>> = AfterIdleFrame

\* C18: a step on a malformed snapshot (fewer than 21 landmarks, or invalid
\* coordinates) classifies it as Idle, raises nothing out of the step and
\* leaves the engine as an ordinary frame without a hand does.
C18_FailsClosed == [][C18_Step]_vars

\* the detector classified a hand of NaN coordinates as Fist and made Fist
\* the current pose
C18_NanIsFist ==
    /\ program = "detector"
    /\ malformed_log = <<Outcome("Fist", None)>>
    /\ current_pose = "Fist"
    /\ Kinds(events) = {}

\* C19: no engine instance exists with a negative action cooldown or a
\* non-positive pinch threshold: construction rejects such arguments.
C19_ConfigValidated ==
    config # NoValue =>
        /\ config[1].action_cooldown >= 0
        /\ config[1].pinch_threshold > 0

\* an instance constructed with a negative cooldown and a zero threshold
C19_OutOfRangeAccepted ==
    /\ config # NoValue
    /\ config[1].action_cooldown < 0
    /\ config[1].pinch_threshold = 0

\* finger i (1..4) is affected by a vector of norm 0: its own or the palm's
Affected(l, i) == l.zero[0] \/ l.zero[i]

\* the finger states the claim expects: an affected finger is not extended
ExpectedFingers(l) ==
    [thumb  |-> l.y[4] < l.y[3],
     index  |-> l.dot[1] /\ ~Affected(l, 1),
     middle |-> l.dot[2] /\ ~Affected(l, 2),
     ring   |-> l.dot[3] /\ ~Affected(l, 3),
     pinky  |-> l.dot[4] /\ ~Affected(l, 4)]

\* C20: on a hand with a palm-up or finger vector of norm 0 the controller's
\* classifier returns a pose, the one its precedence rules give when every
\* affected finger counts as not extended; it never fails.
C20_DegenerateGeometry ==
    classified # None =>
        /\ classified \in Poses
        /\ \A i \in 1..4 : Affected(lm, i) => ~FourFingers(ControllerFingerStates(lm))[i]
        /\ classified = ControllerMatchPose(ExpectedFingers(lm))

\* a hand whose fingers all point up but whose palm vector has norm 0 is
\* classified by its thumb alone
C20_Witness ==
    /\ classified = "ThumbsUp"
    /\ lm.zero[0]
    /\ \A i \in 1..4 : lm.dot[i]

OneShotKinds == ClickKinds \cup {"ShowDesktop"}

OneShotsOf(evs) == SelectSeq(evs, LAMBDA e : e.kind \in OneShotKinds)

\* the cooldown that gates an event of kind k
CooldownOf(k) ==
    IF k = "ShowDesktop" /\ program = "controller"
    THEN SHOW_DESKTOP_COOLDOWN ELSE ACTION_COOLDOWN

\* last_action_time is the clock reading stored by the latest one-shot event
\* (0 before the first): a step that emits one stores a reading taken at or
\* after its own, every other step leaves it; and a one-shot event is
\* emitted only when the step's reading exceeds it by more than the cooldown
C21_Step ==
    ~Tick =>
        LET shots == OneShotsOf(events')
        IN  /\ Len(shots) <= 1
            /\ shots = <<>> => last_action_time' = last_action_time
            /\ shots # <<>> =>
                  /\ now - last_action_time > CooldownOf(shots[1].kind)
                  /\ last_action_time' \in now..now'

\* C21: clicks and ShowDesktop share last_action_time, so two consecutive
\* one-shot events of an event stream are more than the cooldown of the later
\* one apart: the later one's clock reading exceeds the reading stored by the
\* earlier one by more than 0.5 s for a click and for the detector's
\* ShowDesktop, by more than 1.5 s for the controller's ShowDesktop.
C21_SharedCooldown == [][C21_Step]_vars

\* the controller, holding CallMe, fires ShowDesktop after an earlier click
C21_Witness ==
    /\ program = "controller"
    /\ Kinds(events) = {"ShowDesktop"}
    /\ click_frame_time # NoValue
    /\ now - click_frame_time[1] > SHOW_DESKTOP_COOLDOWN

\* C22: the rule chain with the non-strict Fist condition (the detector's)
\* and the rule chain with the strict Fist condition (the controller's) are
\* the same classifier: on the five finger-extension results of every
\* classified snapshot, and on every combination of five results, both
\* return the same pose, which is the pose the classifier returned.
C22_SamePose ==
    /\ \A f \in FingerCombos : DetectorMatchPose(f) = ControllerMatchPose(f)
    /\ (classified # None /\ lm.hand) =>
          LET f == FingerStates(program, lm)
          IN  /\ classified = DetectorMatchPose(f)
              /\ classified = ControllerMatchPose(f)

\* a classified snapshot with the thumb up and four fingers down, the one
\* combination on which the two Fist conditions differ
C22_Witness ==
    /\ classified # None
    /\ lm.hand
    /\ LET f == FingerStates(program, lm)
       IN  /\ DetCondFist(f)
           /\ ~CtlCondFist(f)
           /\ classified = "ThumbsUp"

\* C23: once stop() has been called, the capture thread leaves its loop with
\* the running flag false and the controller's join() returns, under every
\* interleaving of the thread's start-up and the controller's shutdown path.
C23_ShutdownTerminates ==
    (main_pc = "join") ~>
        (main_pc = "closed" /\ tracker_pc = "finished" /\ ~running)

\* stop() has returned and the capture thread is in its loop with the
\* running flag true
C23_StoppedButRunning ==
    /\ main_pc = "join"
    /\ running
    /\ tracker_pc = "capture"

\* when stop() is called after the capture thread has executed line 38, the
\* thread leaves its loop and join() returns
C23_TerminatesOnceStarted ==
    (main_pc = "join" /\ ~running /\ tracker_pc # "run") ~>
        (main_pc = "closed" /\ tracker_pc = "finished" /\ ~running)

====
